---- MODULE Spec2Model ----
(***************************************************************************)
(* Model of modifiedapp.py: a Streamlit script that reads frames from a    *)
(* webcam or an uploaded video, counts the persons a detector finds in     *)
(* every SKIP_FRAMES-th frame, compares the count with the slider limit,   *)
(* shows a banner, plays an alarm (with a cooldown) and appends a row to   *)
(* the alerts table on every NORMAL -> CROWDED change; a third mode lists  *)
(* the newest rows of the table.                                           *)
(*                                                                         *)
(* A frame is represented by the number of 'person' boxes the detector     *)
(* finds in it.  Time is counted in ticks, TicksPerSecond to the second.   *)
(* One step of the model is one user interaction followed by the script    *)
(* run it triggers up to the first loop iteration, or one iteration of a   *)
(* capture loop (a read and the process_frame call on what was read), or   *)
(* the passing of one tick of time.                                        *)
(***************************************************************************)
EXTENDS Integers, Sequences, FiniteSets, TLC

\* ---------------------------------------------------------------- constants
SKIP_FRAMES == 3
ALERT_COOLDOWN == 2
SLIDER_MIN == 0
SLIDER_MAX == 50
SLIDER_DEFAULT == 5
LOG_LIMIT == 25
None == -1

\* ------------------------------------------------------------------- bounds
TicksPerSecond == 2
Horizon == 5
MaxFrames == 6
MaxVideoLen == 3
OldRows == 25
MaxCalls == 12

CooldownTicks == ALERT_COOLDOWN * TicksPerSecond
\* time.time() is seconds since 1970: far more than the cooldown after 0
StartTime == CooldownTicks + 1
MaxTime == StartTime + Horizon

Modes == {"Webcam", "Video File", "Log History"}
\* slider positions tried: both ends and the default
Limits == {SLIDER_MIN, SLIDER_DEFAULT, SLIDER_MAX}
\* person counts of the frames tried
Counts == {0, SLIDER_DEFAULT, SLIDER_DEFAULT + 1}

VARIABLES
    now,              \* the clock, in ticks
    frame_count,      \* st.session_state.frame_count
    last_alert_time,  \* st.session_state.last_alert_time, in ticks
    last_status,      \* st.session_state.last_status
    alerts,           \* the rows of table alerts, in insertion order
    mode,             \* the radio "Input Source"
    limit,            \* the slider "Set Crowd Limit"
    run,              \* the checkbox "Start Live Stream"
    uploaded,         \* the uploader: None, or the number of frames of the file
    pc,               \* where the script is: "idle", "webcam" or "video"
    cap,              \* the capture: "none", "open", "failed" or "released"
    tfile,            \* the temporary file: "none", "exists" or "deleted"
    remaining,        \* frames of the video not read yet
    st_count,         \* the metric "People Detected" (None: empty)
    st_status,        \* the banner: "empty", "error" or "success"
    st_alarm,         \* the alarm placeholder: "empty" or "audio"
    st_frame,         \* the image placeholder: "empty", "raw" or "annotated"
    st_table,         \* the rows st.table shows
    st_info,          \* whether "No logs found yet." is shown
    last_read,        \* history: the result of the latest cap.read()
    last_call,        \* history: the latest call of process_frame
    played,           \* history: the times of the successful playbacks
    tally             \* history: rows inserted, crowded runs begun, alarm retries,
                      \* and what the latest processed frame was and did

session == <<frame_count, last_alert_time, last_status>>
widgets == <<mode, limit, run, uploaded>>
capture == <<pc, cap, tfile, remaining>>
display == <<st_count, st_status, st_alarm, st_frame, st_table, st_info>>
history == <<last_read, last_call, played, tally>>
vars == <<now, session, alerts, widgets, capture, display, history>>

\* ------------------------------------------------------------ pure helpers
\* strftime("%Y-%m-%d %H:%M:%S"): the fraction of the second is dropped and
\* every field is zero padded; only the two digits of the seconds vary here
Strftime(t) ==
    LET s == t \div TicksPerSecond
    IN <<(s \div 10) % 10, s % 10>>

\* SQLite's comparison of two TEXT values: the first differing character decides
RECURSIVE TextLess(_, _)
TextLess(a, b) ==
    IF b = <<>> THEN FALSE
    ELSE IF a = <<>> THEN TRUE
    ELSE IF Head(a) # Head(b) THEN Head(a) < Head(b)
    ELSE TextLess(Tail(a), Tail(b))

Row(ts, cnt) == [timestamp |-> ts, count |-> cnt, status |-> "CROWDED"]

\* the rows written by earlier sessions: the table outlives the session
\* (CREATE TABLE IF NOT EXISTS).  Every row was inserted above some limit >= 0.
\* Their timestamps need not ascend: datetime.now() is local wall time, which
\* is set back at the end of daylight saving.
OldTable(n) ==
    [i \in 1..n |-> Row(Strftime((i * TicksPerSecond) % (StartTime + 1)), 1 + (i % 3))]
InitTables == {<<>>, OldTable(OldRows)}

Reverse(s) == [i \in 1..Len(s) |-> s[Len(s) + 1 - i]]

\* the greatest of a non-empty set of TEXT values
GreatestText(texts) == CHOOSE k \in texts : \A o \in texts : ~TextLess(k, o)

\* the rows whose timestamp is in keys, greatest timestamp first; rows of
\* equal timestamp come in an order SQL leaves open: newerFirst picks one of two
RECURSIVE RowsByKeyDesc(_, _, _)
RowsByKeyDesc(rows, keys, newerFirst) ==
    IF keys = {} THEN <<>>
    ELSE LET k == GreatestText(keys)
             same == SelectSeq(rows, LAMBDA r : r.timestamp = k)
         IN (IF newerFirst THEN Reverse(same) ELSE same)
                \o RowsByKeyDesc(rows, keys \ {k}, newerFirst)

\* ORDER BY timestamp DESC
OrderByTimestampDesc(rows, newerFirst) ==
    RowsByKeyDesc(rows, {rows[i].timestamp : i \in 1..Len(rows)}, newerFirst)

SqlLimit(rows, n) == SubSeq(rows, 1, IF Len(rows) < n THEN Len(rows) ELSE n)

\* a variant: the ORDER BY clause is missing
SelectLogsUnordered(rows, newerFirst) == SqlLimit(rows, LOG_LIMIT)

\* SELECT * FROM alerts ORDER BY timestamp DESC LIMIT 25
SelectLogs(rows, newerFirst) ==
    SqlLimit(OrderByTimestampDesc(rows, newerFirst), LOG_LIMIT)

\* the detector: the number of boxes of class 'person' in the frame
PersonCount(frame) == frame

\* a variant: the test is made on the count before the increment
ProcessedBeforeIncrement(fc) == (fc - 1) % SKIP_FRAMES = 0

\* frame_count % SKIP_FRAMES != 0 skips the frame
Processed(fc) == fc % SKIP_FRAMES = 0

\* a variant: the slider is not consulted, the default limit is compared
CrowdedAtDefault(person_count, lim) == person_count > SLIDER_DEFAULT

\* a variant: person_count >= limit
CrowdedAtLimit(person_count, lim) == person_count >= lim

\* person_count > limit
Crowded(person_count, lim) == person_count > lim

\* a variant: current_time - last_alert_time >= ALERT_COOLDOWN
CooldownOverAtEqual(current_time, last) == current_time - last >= CooldownTicks

\* current_time - last_alert_time > ALERT_COOLDOWN
CooldownOver(current_time, last) == current_time - last > CooldownTicks

\* a variant: last_alert_time is set before st_alarm.audio is called
play_alarm_stamp_first(audio_ok) ==
    IF CooldownOver(now, last_alert_time)
    THEN IF audio_ok
         THEN [outcome |-> "played", last_alert_time |-> now, st_alarm |-> "audio"]
         ELSE [outcome |-> "failed", last_alert_time |-> now, st_alarm |-> st_alarm]
    ELSE [outcome |-> "cooldown", last_alert_time |-> last_alert_time,
          st_alarm |-> st_alarm]

\* play_alarm(): what it leaves behind.  audio_ok says whether
\* st_alarm.audio returned (TRUE) or raised (FALSE).
play_alarm(audio_ok) ==
    IF CooldownOver(now, last_alert_time)
    THEN IF audio_ok
         THEN [outcome |-> "played", last_alert_time |-> now, st_alarm |-> "audio"]
         ELSE [outcome |-> "failed", last_alert_time |-> last_alert_time,
               st_alarm |-> st_alarm]
    ELSE [outcome |-> "cooldown", last_alert_time |-> last_alert_time,
          st_alarm |-> st_alarm]

\* a variant: the row stores the frame counter instead of the person count
InsertAlertFrameCount(rows, person_count) ==
    Append(rows, Row(Strftime(now), frame_count + 1))

\* a variant: the table is rewritten to hold the new row alone
InsertAlertReplace(rows, person_count) ==
    <<Row(Strftime(now), person_count)>>

\* INSERT INTO alerts VALUES (now, person_count, "CROWDED")
InsertAlert(rows, person_count) ==
    Append(rows, Row(Strftime(now), person_count))

\* a variant: every crowded frame is logged
LogsAlertAlways(status) == TRUE

\* if st.session_state.last_status == "NORMAL"
LogsAlert(status) == status = "NORMAL"

\* the branch of process_frame taken when person_count > limit
CrowdedBranch(person_count, audio_ok) ==
    LET a == play_alarm(audio_ok)
        logged == LogsAlert(last_status)
    IN /\ st_status' = "error"
       /\ last_alert_time' = a.last_alert_time
       /\ st_alarm' = a.st_alarm
       /\ played' = IF a.outcome = "played" THEN Append(played, now) ELSE played
       /\ alerts' = IF logged THEN InsertAlert(alerts, person_count) ELSE alerts
       /\ last_status' = IF logged THEN "CROWDED" ELSE last_status
       /\ last_call' = [frame |-> person_count, kind |-> "processed",
                        alarm |-> a.outcome]
       /\ tally' = [inserted |-> tally.inserted + (IF logged THEN 1 ELSE 0),
                    runs |-> tally.runs + (IF tally.crowded THEN 0 ELSE 1),
                    crowded |-> TRUE,
                    retry |-> IF a.outcome = "cooldown" THEN tally.retry
                              ELSE a.outcome = "failed",
                    retried |-> tally.retried \/ tally.retry,
                    fresh |-> FALSE,
                    count |-> person_count,
                    event |-> IF tally.crowded
                              THEN IF tally.fresh THEN "carried" ELSE "none"
                              ELSE IF tally.count = person_count
                                   THEN "lowered" ELSE "none"]

\* a variant: last_status is not set back to NORMAL
NormalBranchNoReset(person_count) ==
    /\ st_status' = "success"
    /\ st_alarm' = "empty"
    /\ last_call' = [frame |-> person_count, kind |-> "processed",
                     alarm |-> "not_called"]
    /\ tally' = [tally EXCEPT !.crowded = FALSE,
                              !.fresh = FALSE,
                              !.count = person_count,
                              !.event = IF tally.crowded /\ tally.count = person_count
                                        THEN "raised" ELSE "none"]
    /\ UNCHANGED <<last_status, last_alert_time, played, alerts>>

\* the branch of process_frame taken otherwise
NormalBranch(person_count) ==
    /\ st_status' = "success"
    /\ st_alarm' = "empty"
    /\ last_status' = "NORMAL"
    /\ last_call' = [frame |-> person_count, kind |-> "processed",
                     alarm |-> "not_called"]
    /\ tally' = [tally EXCEPT !.crowded = FALSE,
                              !.fresh = FALSE,
                              !.count = person_count,
                              !.event = IF tally.crowded /\ tally.count = person_count
                                        THEN "raised" ELSE "none"]
    /\ UNCHANGED <<last_alert_time, played, alerts>>

\* process_frame(frame, st_frame)
process_frame(frame) ==
    IF frame = None
    THEN /\ last_call' = [frame |-> None, kind |-> "none", alarm |-> "not_called"]
         /\ UNCHANGED <<session, alerts, st_count, st_status, st_alarm, st_frame,
                        played, tally>>
    ELSE /\ frame_count' = frame_count + 1
         /\ IF ~Processed(frame_count + 1)
            THEN /\ st_frame' = "raw"
                 /\ last_call' = [frame |-> frame, kind |-> "skipped",
                                  alarm |-> "not_called"]
                 /\ UNCHANGED <<last_alert_time, last_status, alerts, st_count,
                                st_status, st_alarm, played, tally>>
            ELSE /\ st_count' = PersonCount(frame)
                 /\ IF Crowded(PersonCount(frame), limit)
                    THEN \E audio_ok \in BOOLEAN :
                            CrowdedBranch(PersonCount(frame), audio_ok)
                    ELSE NormalBranch(PersonCount(frame))
                 /\ st_frame' = "annotated"

\* ------------------------------------------------------------ the script
\* cap.read(): (ret, frame)
ReadResults ==
    {[ret |-> TRUE, frame |-> c] : c \in Counts}
        \cup {[ret |-> FALSE, frame |-> None], [ret |-> TRUE, frame |-> None]}
EndOfStream == [ret |-> FALSE, frame |-> None]
NoRead == [at |-> "none", ret |-> FALSE, frame |-> None]
ReadAt(where, r) == [at |-> where, ret |-> r.ret, frame |-> r.frame]
NoCall == [frame |-> None, kind |-> "no_call", alarm |-> "not_called"]

\* a variant: if not ret and frame is None: break
LoopBreaksOnBoth(r) == ~r.ret /\ r.frame = None

\* if not ret or frame is None: break
LoopBreaks(r) == ~r.ret \/ r.frame = None

\* what follows the loop `while run:`
WebcamExit ==
    /\ cap' = "released"
    /\ pc' = "idle"
    /\ UNCHANGED <<tfile, remaining>>

\* what follows the loop `while cap.isOpened():`
VideoExit ==
    /\ cap' = "released"
    /\ tfile' = "deleted"
    /\ pc' = "idle"
    /\ UNCHANGED remaining

\* a variant: the session state is set on every run, present or not
SessionStateReset ==
    /\ frame_count' = 0
    /\ last_alert_time' = 0
    /\ last_status' = "NORMAL"

\* if 'frame_count' not in st.session_state: ... (and the two that follow)
\* in a run after the first: the three keys are present and are left alone
SessionState == UNCHANGED <<frame_count, last_alert_time, last_status>>

\* the session state, widgets and placeholders at the top of every run
ScriptTop ==
    /\ SessionState
    /\ st_count' = None
    /\ st_status' = "empty"
    /\ st_alarm' = "empty"
    /\ st_frame' = "empty"
    /\ last_read' = NoRead
    /\ last_call' = NoCall
    /\ tally' = [tally EXCEPT !.fresh = TRUE]
    /\ UNCHANGED <<now, alerts, played>>

\* if mode == "Webcam": up to the first test of `while run:`
WebcamMode(r) ==
    /\ tfile' = "none"
    /\ remaining' = 0
    /\ cap' = IF r THEN "open" ELSE "released"
    /\ pc' = IF r THEN "webcam" ELSE "idle"
    /\ st_table' = <<>>
    /\ st_info' = FALSE

\* elif mode == "Video File": up to the first test of `while cap.isOpened():`
VideoFileMode(up, opened) ==
    /\ (up # None /\ opened) => frame_count + up <= MaxFrames
    /\ IF up = None
       THEN /\ cap' = "none"
            /\ tfile' = "none"
            /\ pc' = "idle"
            /\ remaining' = 0
       ELSE IF opened
            THEN /\ cap' = "open"
                 /\ tfile' = "exists"
                 /\ pc' = "video"
                 /\ remaining' = up
            ELSE /\ cap' = "released"
                 /\ tfile' = "deleted"
                 /\ pc' = "idle"
                 /\ remaining' = 0
    /\ st_table' = <<>>
    /\ st_info' = FALSE

\* elif mode == "Log History"
LogHistoryMode(newerFirst) ==
    LET data == SelectLogs(alerts, newerFirst)
    IN /\ st_table' = data
       /\ st_info' = (st_table' = <<>>)
       /\ cap' = "none"
       /\ tfile' = "none"
       /\ pc' = "idle"
       /\ remaining' = 0

\* one run of the script from the top with the widgets at m, r, up
Script(m, r, up) ==
    /\ ScriptTop
    /\ \E choice \in BOOLEAN :
         IF m = "Webcam" THEN WebcamMode(r)
         ELSE IF m = "Video File" THEN VideoFileMode(up, choice)
         ELSE LogHistoryMode(choice)

\* ------------------------------------------------------------ the actions
\* the user picks another input source; the widgets of the old one are gone
SelectMode(m) ==
    /\ m # mode
    /\ mode' = m
    /\ run' = FALSE
    /\ uploaded' = None
    /\ UNCHANGED limit
    /\ Script(m, FALSE, None)

\* the user moves the slider
MoveSlider(l) ==
    /\ l # limit
    /\ limit' = l
    /\ UNCHANGED <<mode, run, uploaded>>
    /\ Script(mode, run, uploaded)

\* the user ticks or unticks "Start Live Stream"
ToggleRun ==
    /\ mode = "Webcam"
    /\ run' = ~run
    /\ UNCHANGED <<mode, limit, uploaded>>
    /\ Script(mode, ~run, uploaded)

\* the user uploads a video of n frames
UploadVideo(n) ==
    /\ mode = "Video File"
    /\ uploaded' = n
    /\ UNCHANGED <<mode, limit, run>>
    /\ Script(mode, run, n)

\* the user removes the uploaded video
RemoveVideo ==
    /\ mode = "Video File"
    /\ uploaded # None
    /\ uploaded' = None
    /\ UNCHANGED <<mode, limit, run>>
    /\ Script(mode, run, None)

\* one iteration of `while run:`
WebcamStep(r) ==
    /\ pc = "webcam"
    /\ last_read' = ReadAt("webcam", r)
    /\ IF LoopBreaks(r)
       THEN /\ WebcamExit
            /\ UNCHANGED <<session, alerts, st_count, st_status, st_alarm,
                           st_frame, last_call, played, tally>>
       ELSE /\ frame_count < MaxFrames
            /\ process_frame(r.frame)
            /\ UNCHANGED capture
    /\ UNCHANGED <<now, widgets, st_table, st_info>>

\* one iteration of `while cap.isOpened():`
VideoStep(r) ==
    /\ pc = "video"
    /\ remaining = 0 => r = EndOfStream
    /\ last_read' = ReadAt("video", r)
    /\ IF LoopBreaks(r)
       THEN /\ VideoExit
            /\ UNCHANGED <<session, alerts, st_count, st_status, st_alarm,
                           st_frame, last_call, played, tally>>
       ELSE /\ process_frame(r.frame)
            /\ remaining' = remaining - 1
            /\ UNCHANGED <<pc, cap, tfile>>
    /\ UNCHANGED <<now, widgets, st_table, st_info>>

\* time passes
Tick ==
    /\ now < MaxTime
    /\ now' = now + 1
    /\ UNCHANGED <<session, alerts, widgets, capture, display, history>>

\* the first run of the script in a new session: the session state is set,
\* the widgets are at their defaults, the table is what earlier sessions left
Init ==
    /\ now = StartTime
    /\ frame_count = 0
    /\ last_alert_time = 0
    /\ last_status = "NORMAL"
    /\ alerts \in InitTables
    /\ mode = "Webcam"
    /\ limit = SLIDER_DEFAULT
    /\ run = FALSE
    /\ uploaded = None
    /\ pc = "idle"
    /\ cap = "released"
    /\ tfile = "none"
    /\ remaining = 0
    /\ st_count = None
    /\ st_status = "empty"
    /\ st_alarm = "empty"
    /\ st_frame = "empty"
    /\ st_table = <<>>
    /\ st_info = FALSE
    /\ last_read = NoRead
    /\ last_call = NoCall
    /\ played = <<>>
    /\ tally = [inserted |-> 0, runs |-> 0, crowded |-> FALSE,
                retry |-> FALSE, retried |-> FALSE,
                fresh |-> TRUE, count |-> None, event |-> "none"]

Next ==
    \/ \E m \in Modes : SelectMode(m)
    \/ \E l \in Limits : MoveSlider(l)
    \/ ToggleRun
    \/ \E n \in 0..MaxVideoLen : UploadVideo(n)
    \/ RemoveVideo
    \/ \E r \in ReadResults : WebcamStep(r)
    \/ \E r \in ReadResults : VideoStep(r)
    \/ Tick

Spec == Init /\ [][Next]_vars

\* the loops keep running while the script is not interrupted
FairSpec ==
    /\ Spec
    /\ WF_vars(\E r \in ReadResults : VideoStep(r))

\* ------------------------------------------ process_frame called directly
\* process_frame(frame, st_frame) on any frame, None included
CallProcessFrame(frame) ==
    /\ frame_count < MaxCalls
    /\ process_frame(frame)
    /\ UNCHANGED <<now, widgets, capture, st_table, st_info, last_read>>

\* limit = ... : the limit in force for the calls that follow
AssignLimit(l) ==
    /\ l # limit
    /\ limit' = l
    /\ UNCHANGED <<now, session, alerts, mode, run, uploaded, capture, display,
                   history>>

InitCalls ==
    /\ now = StartTime
    /\ frame_count = 0
    /\ last_alert_time = 0
    /\ last_status = "NORMAL"
    /\ alerts = <<>>
    /\ mode = "Webcam"
    /\ limit \in Limits
    /\ run = TRUE
    /\ uploaded = None
    /\ pc = "webcam"
    /\ cap = "open"
    /\ tfile = "none"
    /\ remaining = 0
    /\ st_count = None
    /\ st_status = "empty"
    /\ st_alarm = "empty"
    /\ st_frame = "empty"
    /\ st_table = <<>>
    /\ st_info = FALSE
    /\ last_read = NoRead
    /\ last_call = NoCall
    /\ played = <<>>
    /\ tally = [inserted |-> 0, runs |-> 0, crowded |-> FALSE,
                retry |-> FALSE, retried |-> FALSE,
                fresh |-> TRUE, count |-> None, event |-> "none"]

NextCalls ==
    \/ \E f \in Counts \cup {None} : CallProcessFrame(f)
    \/ \E l \in Limits : AssignLimit(l)
    \/ Tick

SpecCalls == InitCalls /\ [][NextCalls]_vars

\* ---------------------------------------------------------------- claims
\* a step in which process_frame was called on a frame that is not None
FrameCall == frame_count' = frame_count + 1
\* ... and the frame was not skipped
ProcessedCall == FrameCall /\ frame_count' % SKIP_FRAMES = 0
\* ... and the frame was skipped
SkippedCall == FrameCall /\ frame_count' % SKIP_FRAMES # 0
\* a step that adds one row at the end of the table and touches no other row
RowAppended ==
    /\ Len(alerts') = Len(alerts) + 1
    /\ SubSeq(alerts', 1, Len(alerts)) = alerts
LastRow(rows) == rows[Len(rows)]
MostRecent(times) == IF times = <<>> THEN 0 ELSE times[Len(times)]
Range(seq) == {seq[i] : i \in 1..Len(seq)}
Occurrences(seq, x) == Cardinality({i \in 1..Len(seq) : seq[i] = x})

\* C1: a row is inserted at exactly the processed frames whose person count
\* exceeds the limit while last_status is NORMAL, so the rows inserted in the
\* session are as many as the maximal runs of crowded processed frames begun.
C1_OneRowPerTransition ==
    /\ [](tally.inserted = tally.runs /\ Len(alerts) = tally.runs)
    /\ [][/\ (alerts' # alerts) <=>
                (ProcessedCall /\ last_call'.frame > limit /\ last_status = "NORMAL")
          /\ (alerts' # alerts) => RowAppended]_vars

\* C1 happens: two separate crowded runs within four processed frames, two rows
C1_Witness ==
    /\ frame_count = 4 * SKIP_FRAMES
    /\ tally.runs = 2
    /\ Len(alerts) = 2
    /\ last_status = "CROWDED"

\* C2: every row put into the table holds the person count of the frame that
\* triggered the insert, and that count is strictly greater than the slider
\* limit (a value in 0..50) in force during that frame.
C2_CountAboveLimit ==
    [][(alerts' # alerts) =>
          /\ ProcessedCall
          /\ LastRow(alerts').count = last_call'.frame
          /\ LastRow(alerts').count > limit
          /\ limit' = limit
          /\ limit \in SLIDER_MIN..SLIDER_MAX]_vars

\* C2 happens: a row was just inserted while the limit is at the slider's low end
C2_Witness ==
    /\ tally.inserted = 1
    /\ last_call.kind = "processed"
    /\ last_call.alarm # "not_called"
    /\ limit = SLIDER_MIN
    /\ LastRow(alerts).count = last_call.frame
    /\ LastRow(alerts).count > limit

\* C3: no step updates or deletes a row: the table changes only by one row
\* appended at its end, and the appended row has status "CROWDED".
C3_AppendOnly ==
    [][\/ alerts' = alerts
       \/ (RowAppended /\ LastRow(alerts').status = "CROWDED")]_vars

\* C3 happens: the old rows are intact after an insert and a Log History view
C3_Witness ==
    /\ mode = "Log History"
    /\ Len(alerts) = OldRows + 1
    /\ SubSeq(alerts, 1, OldRows) = OldTable(OldRows)
    /\ tally.inserted = 1

\* C4: on every processed frame the banner shows the alert and the alarm is
\* attempted iff person_count > limit; when person_count <= limit the banner
\* shows Normal, the alarm placeholder is cleared and last_status is NORMAL.
C4_CrowdedIffAboveLimit ==
    [][ProcessedCall =>
          /\ last_call'.kind = "processed"
          /\ st_count' = last_call'.frame
          /\ (st_status' = "error") <=> (last_call'.frame > limit)
          /\ (last_call'.alarm # "not_called") <=> (last_call'.frame > limit)
          /\ (last_call'.frame <= limit) =>
                /\ st_status' = "success"
                /\ st_alarm' = "empty"
                /\ last_status' = "NORMAL"]_vars

\* C4 happens: a processed frame with exactly limit persons, after a crowded one
C4_Witness ==
    /\ last_call.kind = "processed"
    /\ last_call.frame = limit
    /\ limit = SLIDER_DEFAULT
    /\ tally.inserted = 1
    /\ st_status = "success"
    /\ last_status = "NORMAL"

\* a step that is one iteration of a capture loop
LoopStep ==
    /\ last_read'.at # "none"
    /\ (last_read' # last_read \/ frame_count' # frame_count \/ pc' # pc)

\* C5: every frame read successfully is passed to process_frame before the
\* next read; the first read that fails or returns no frame ends the loop,
\* the capture is released and (Video File) the temporary file deleted; no
\* frame is processed once the loop has ended; the Video File loop ends.
C5_LoopEndsOnFailedRead ==
    /\ [][LoopStep =>
            IF last_read'.ret /\ last_read'.frame # None
            THEN /\ FrameCall
                 /\ last_call'.frame = last_read'.frame
                 /\ last_call'.kind \in {"skipped", "processed"}
                 /\ pc' = pc
                 /\ cap' = "open"
                 /\ (pc = "video" => remaining' = remaining - 1)
            ELSE /\ pc' = "idle"
                 /\ cap' = "released"
                 /\ (pc = "video" => tfile' = "deleted")
                 /\ UNCHANGED <<session, alerts, last_call>>]_vars
    /\ [][pc = "idle" => frame_count' = frame_count]_vars
    /\ []<>(pc # "video")

\* C5 happens: a video of three frames was processed and the stream ended
C5_Witness ==
    /\ mode = "Video File"
    /\ uploaded = SKIP_FRAMES
    /\ remaining = 0
    /\ frame_count = SKIP_FRAMES
    /\ last_read = ReadAt("video", EndOfStream)
    /\ last_call.kind = "processed"
    /\ pc = "idle"
    /\ cap = "released"
    /\ tfile = "deleted"

\* C6: a failed playback does not stop the loop and leaves last_alert_time
\* as it was; the frame still inserts its row and sets CROWDED when
\* last_status was NORMAL; the next crowded processed frame tries the alarm
\* again, whatever time has passed.
C6_AudioFailureIgnored ==
    /\ [][(FrameCall /\ last_call'.alarm = "failed") =>
            /\ pc' = pc
            /\ pc' # "idle"
            /\ last_alert_time' = last_alert_time
            /\ played' = played
            /\ (last_status = "NORMAL") =>
                  (RowAppended /\ last_status' = "CROWDED")]_vars
    /\ [][(tally.retry /\ ProcessedCall /\ last_call'.frame > limit) =>
            last_call'.alarm \in {"played", "failed"}]_vars

\* C6 happens: the alarm failed on one frame and played on the next crowded one
C6_Witness ==
    /\ tally.retried
    /\ ~tally.retry
    /\ tally.inserted = 1
    /\ last_call.alarm = "played"
    /\ last_status = "CROWDED"
    /\ pc = "webcam"

\* the rows shown are rows of the table, and no row left out is newer than
\* a row shown
NewestOf(shown, rows) ==
    /\ \A x \in Range(shown) : Occurrences(shown, x) <= Occurrences(rows, x)
    /\ \A x \in Range(rows) :
          Occurrences(shown, x) < Occurrences(rows, x) =>
              \A i \in 1..Len(shown) : ~TextLess(shown[i].timestamp, x.timestamp)
NewestFirst(shown) ==
    \A i \in 1..(Len(shown) - 1) :
        ~TextLess(shown[i].timestamp, shown[i + 1].timestamp)

\* C7: Log History shows at most 25 rows, those of the greatest timestamps,
\* newest first, and the 'No logs found yet.' message iff the table is empty.
C7_LogHistoryNewest ==
    mode = "Log History" =>
        /\ Len(st_table) <= LOG_LIMIT
        /\ Len(st_table) = IF Len(alerts) < LOG_LIMIT THEN Len(alerts) ELSE LOG_LIMIT
        /\ NewestOf(st_table, alerts)
        /\ NewestFirst(st_table)
        /\ st_info <=> (alerts = <<>>)
        /\ st_info => st_table = <<>>

\* C7 happens: 26 rows in the table, 25 shown, the row of this session first
C7_Witness ==
    /\ mode = "Log History"
    /\ Len(alerts) = LOG_LIMIT + 1
    /\ Len(st_table) = LOG_LIMIT
    /\ tally.inserted = 1
    /\ st_table[1] = LastRow(alerts)
    /\ now > StartTime + TicksPerSecond

\* C8: the sound is played only when more than ALERT_COOLDOWN seconds have
\* passed since last_alert_time, two playbacks are more than ALERT_COOLDOWN
\* seconds apart, and last_alert_time is the time of the most recent
\* playback (0 if none).
C8_CooldownBetweenPlaybacks ==
    /\ [](last_alert_time = MostRecent(played))
    /\ [](\A i \in 1..(Len(played) - 1) :
             played[i + 1] - played[i] > ALERT_COOLDOWN * TicksPerSecond)
    /\ [][(played' # played) =>
            /\ played' = Append(played, now)
            /\ now - last_alert_time > ALERT_COOLDOWN * TicksPerSecond
            /\ last_call'.alarm = "played"
            /\ st_alarm' = "audio"]_vars

\* C8 happens: two playbacks in the session
C8_Witness ==
    /\ Len(played) = 2
    /\ last_alert_time = played[2]
    /\ last_call.alarm = "played"

\* C9: a frame that is not None adds one to frame_count; detection and the
\* threshold rule run iff the new frame_count is divisible by SKIP_FRAMES; a
\* skipped frame changes only frame_count and the image; a None frame
\* changes nothing.
C9_EveryThirdFrame ==
    [][/\ frame_count' \in {frame_count, frame_count + 1}
       /\ (now' = now /\ limit' = limit /\ last_call'.kind # "none") => FrameCall
       /\ FrameCall =>
             /\ last_call'.kind \in {"skipped", "processed"}
             /\ (last_call'.kind = "processed") <=> (frame_count' % SKIP_FRAMES = 0)
       /\ SkippedCall =>
             /\ st_frame' = "raw"
             /\ UNCHANGED <<last_status, last_alert_time, st_count, st_status,
                            st_alarm, alerts, played>>
       /\ ProcessedCall => st_count' = last_call'.frame
       /\ (last_call'.kind = "none" /\ last_call' # last_call) =>
             UNCHANGED <<now, session, alerts, widgets, capture, display>>]_vars

\* C9 happens: the frame after a crowded processed frame was skipped
C9_Witness ==
    /\ frame_count = SKIP_FRAMES + 1
    /\ last_call.kind = "skipped"
    /\ last_status = "CROWDED"
    /\ st_status = "error"
    /\ st_frame = "raw"
    /\ Len(alerts) = 1

\* C10: last_status is NORMAL or CROWDED and starts NORMAL; after a processed
\* frame it is CROWDED iff the frame's person count exceeded the limit; it
\* goes from NORMAL to CROWDED only in a step that inserts a row.
C10_StatusFollowsLastFrame ==
    /\ last_status = "NORMAL"
    /\ [](last_status \in {"NORMAL", "CROWDED"})
    /\ [][/\ ProcessedCall =>
                ((last_status' = "CROWDED") <=> (last_call'.frame > limit))
          /\ (last_status = "NORMAL" /\ last_status' = "CROWDED") => RowAppended
          /\ (last_status' # last_status) => ProcessedCall]_vars

\* C10 happens: the status went to CROWDED and back to NORMAL
C10_Witness ==
    /\ last_status = "NORMAL"
    /\ tally.inserted = 1
    /\ last_call.kind = "processed"
    /\ last_call.frame <= limit
    /\ frame_count = 2 * SKIP_FRAMES

\* C11: a rerun leaves frame_count, last_alert_time and last_status as they
\* are: a session whose latest processed frame was crowded stays CROWDED, the
\* first processed frame of the new run inserts nothing when it is above the
\* limit too, and a row is inserted only when the latest processed frame
\* before it (if any) was at or below the limit.
C11_SessionSurvivesRerun ==
    /\ [](tally.crowded => last_status = "CROWDED")
    /\ [][(session' # session) => FrameCall]_vars
    /\ [][(ProcessedCall /\ tally.fresh /\ tally.crowded
              /\ last_call'.frame > limit) =>
            /\ alerts' = alerts
            /\ last_status' = "CROWDED"
            /\ last_status = "CROWDED"]_vars
    /\ [][(alerts' # alerts) =>
            (last_status = "NORMAL" /\ ~tally.crowded)]_vars

\* C11 happens: after a crowded frame and a rerun, the first processed frame
\* of the new run was crowded too and the table still holds the one row
C11_Witness ==
    /\ tally.event = "carried"
    /\ tally.inserted = 1
    /\ tally.runs = 1
    /\ frame_count = 2 * SKIP_FRAMES
    /\ last_call.kind = "processed"
    /\ last_call.frame > limit
    /\ last_status = "CROWDED"

\* C12: with the person count of the latest processed frame unchanged, a
\* processed frame that is now above the limit while last_status is NORMAL
\* inserts exactly one row, and one that is now at or below the limit while
\* last_status is CROWDED sets NORMAL and leaves the table as it is.
C12_LimitChangeTransitions ==
    [][(ProcessedCall /\ last_call'.frame = tally.count) =>
          /\ (~tally.crowded /\ last_status = "NORMAL" /\ last_call'.frame > limit) =>
                /\ RowAppended
                /\ LastRow(alerts').count = last_call'.frame
                /\ last_status' = "CROWDED"
          /\ (tally.crowded /\ last_status = "CROWDED" /\ last_call'.frame <= limit) =>
                /\ alerts' = alerts
                /\ last_status' = "NORMAL"]_vars

\* C12 happens: the same count as before, the limit lowered below it, one row
C12_Witness ==
    /\ tally.event = "lowered"
    /\ tally.inserted = 1
    /\ last_call.kind = "processed"
    /\ last_call.frame = tally.count
    /\ limit < tally.count
    /\ LastRow(alerts).count = tally.count
    /\ last_status = "CROWDED"

====
